---- MODULE Spec2Model ----
(***************************************************************************)
(* k3s-proxmox-helper: the process of src/src/main.rs.                     *)
(*                                                                         *)
(* main() obtains a session ticket, then races four things in one select   *)
(* loop: the admin web server, the IPAM synchroniser, the TCP proxy accept *)
(* loop and a 600 s timer whose branch renews the ticket.  The three       *)
(* long-running futures are polled only by that select; every accepted     *)
(* connection is handed to a spawned task that runs on its own.            *)
(*                                                                         *)
(* Atomicity: a step of the model is the code between two await points of  *)
(* one future (or task).                                                   *)
(***************************************************************************)
EXTENDS Integers, Sequences, FiniteSets, TLC

(***************************************************************************)
(* Bounds of the model.                                                    *)
(***************************************************************************)
\* connections accepted in one run of the connections specification, and in one
\* run of the process
MaxConns == 2
MaxProcConns == 1
\* poll cycles started in one run
MaxPolls == 2
\* renewals started in one run
MaxRenewals == 2
\* nodes returned by one node-list fetch
MaxNodes == 2
\* filter specification: address records held by the inventory during the cycle
MaxFilterRecs == 2
\* relay specification: connections accepted, poll cycles started, address
\* records held by the inventory during one poll cycle
MaxRelayConns == 1
MaxRelayPolls == 1
MaxRelayRecs == 3
\* publish specification: the same three, for sends interleaved with relays
MaxPublishConns == 1
MaxPublishPolls == 2
MaxPublishRecs == 2
\* admin specification: address records held by the inventory during the
\* request, machines on a node
MaxAdminRecs == 2
MaxAdminVms == 1

(***************************************************************************)
(* Option<T>: None is the empty sequence, Some(x) is <<x>>.                *)
(***************************************************************************)
None == <<>>

Some(x) == <<x>>

\* Option::is_some_and with the predicate given as a set of accepted values
IsSome(o) == o # None

(***************************************************************************)
(* str::starts_with, on strings as sequences of characters.                *)
(***************************************************************************)
StartsWithAnywhere(s, p) ==
    \E i \in 1..Len(s) : i + Len(p) - 1 <= Len(s) /\ SubSeq(s, i, i + Len(p) - 1) = p

StartsWith(s, p) ==
    /\ Len(s) >= Len(p)
    /\ SubSeq(s, 1, Len(p)) = p

\* the hostname prefix of a control-plane member
ServerPrefix == "k3s-server"

(***************************************************************************)
(* The inventory's records.  An IpamEntry keeps the fields the code reads  *)
(* (hostname, vmid, vnet, ip); zone, mac and subnet are only carried.      *)
(***************************************************************************)
ClusterNodes == <<"pve1", "pve2", "pve3", "pve4">>

\* the virtual machines the inventory knows on every node: vmid -> (status, template)
VirtualMachines ==
    { [vmid |-> 101, status |-> "running", template |-> None],
      [vmid |-> 102, status |-> "stopped", template |-> None],
      [vmid |-> 103, status |-> "running", template |-> Some(1)] }

\* records the proxy specification draws its inventory from
IpamA == [hostname |-> Some("k3s-server-1"), vmid |-> Some("101"), vnet |-> "vnet1", ip |-> "10.0.0.5"]

IpamB == [hostname |-> Some("k3s-server-2"), vmid |-> Some("102"), vnet |-> "vnet2", ip |-> "10.0.0.6"]

IpamW == [hostname |-> Some("k3s-agent-1"), vmid |-> Some("101"), vnet |-> "vnet1", ip |-> "10.0.0.7"]

LiveRecords == {IpamA, IpamB, IpamW}

\* records of the filter specification: every combination of hostname, vmid and vnet
Hostnames == {None, Some("k3s-server-1"), Some("k3s-agent-1"), Some("k3s"), Some("my-k3s-server")}

Vmids == {None, Some("101"), Some("102"), Some("103"), Some("104")}

AllRecords == [hostname : Hostnames, vmid : Vmids, vnet : {"vnet1", "vnet2"}, ip : {"10.0.0.5"}]

\* i64::to_string of a vmid (vmids are positive)
Digits == <<"0", "1", "2", "3", "4", "5", "6", "7", "8", "9">>

RECURSIVE I64ToString(_)
I64ToString(n) ==
    IF n < 10 THEN Digits[n + 1]
              ELSE I64ToString(n \div 10) \o Digits[(n % 10) + 1]

\* sequences over S of length at most n
SeqsUpTo(S, n) == UNION {[1..k -> S] : k \in 0..n}

\* the cluster's nodes in their usual order, as many as answer
NodePrefixes == {SubSeq(ClusterNodes, 1, n) : n \in 0..MaxNodes}

VARIABLES
    panicAbort,   \* the build's panic strategy: TRUE = abort, FALSE = unwind
    mainpc,       \* main(): "start", "select", "renewing", "exited"
    result,       \* the process result: "running", "Ok", "Err", "Abort"
    pve_ticket,   \* the ticket main() holds (0: none yet); ticket k is the k-th the server issued
    issued,       \* tickets the authentication endpoint has issued so far
    presented,    \* the ticket carried by the renewal request in flight (0: none)
    renewals,     \* renewals started
    renewFailed,  \* a renewal request returned an error
    webpc,        \* setup_webserver: "start", "bind", "serve", "finished", "failed"
    syncpc,       \* synchronize_ipams: "sleep", "get_nodes", "get_ipams", "failed"
    syncNodes,    \* nodes of the cycle not fetched yet
    syncIpams,    \* the cycle's local `ipams`
    syncRaw,      \* every record the latest cycle's fetches returned, in fetch order
    polls,        \* poll cycles started
    pollFailed,   \* a fetch of a poll cycle returned an error
    cell,         \* the value in the watch channel
    lastSent,     \* the value of the latest tx.send (the initial value before the first)
    sends,        \* the number of tx.send calls so far
    proxypc,      \* proxy_k8s_servers: "bind", "accept", "failed"
    conns,        \* the relay tasks, by order of acceptance
    config,       \* CONFIG.k3s_internal_network_interface
    req           \* the GET /nodes request being handled (get_nodes_infos)

vars == <<panicAbort, mainpc, result, pve_ticket, issued, presented, renewals, renewFailed,
          webpc, syncpc, syncNodes, syncIpams, syncRaw, polls, pollFailed,
          cell, lastSent, sends, proxypc, conns, config, req>>

credVars == <<pve_ticket, issued, presented, renewals, renewFailed>>

webVars == <<webpc>>

adminVars == <<config, req>>

syncVars == <<syncpc, syncNodes, syncIpams, syncRaw, polls, pollFailed>>

cellVars == <<cell, lastSent, sends>>

proxyVars == <<proxypc>>

ConnIds == 1..MaxConns

\* watch::channel(Vec::new()): the value of the channel before the first send
InitialSnapshotSeeded == <<IpamA>>

InitialSnapshot == <<>>

FreeConn ==
    [state |-> "free", ipams |-> <<>>, ipam_idx |-> 0, egress |-> None, attempts |-> <<>>,
     eof |-> "none"]

\* the default of --k3s-internal-network-interface, and another segment name
DefaultSegment == "vnet1"

Segments == {"vnet1", "vnet2"}

\* no request is being handled
NoRequest ==
    [pc |-> "idle", addr |-> <<>>, nodes |-> <<>>, vms |-> <<>>, ipams |-> <<>>, raw |-> <<>>]

\* the process after startup, with the segment name taken from `segments`
Startup(segments) ==
    /\ config \in segments
    /\ req = NoRequest
    /\ panicAbort \in BOOLEAN
    /\ mainpc = "start"
    /\ result = "running"
    /\ pve_ticket = 0
    /\ issued = 0
    /\ presented = 0
    /\ renewals = 0
    /\ renewFailed = FALSE
    /\ webpc = "start"
    /\ syncpc = "sleep"
    /\ syncNodes = <<>>
    /\ syncIpams = <<>>
    /\ syncRaw = <<>>
    /\ polls = 0
    /\ pollFailed = FALSE
    /\ cell = InitialSnapshot
    /\ lastSent = InitialSnapshot
    /\ sends = 0
    /\ proxypc = "bind"
    /\ conns = [c \in ConnIds |-> FreeConn]

Init == Startup({DefaultSegment})


(***************************************************************************)
(* main(): ticket acquisition, the select loop and the renewal branch.     *)
(***************************************************************************)
\* where main() goes when a branch of the select breaks the loop: `Ok(())`
BranchContinue == [pc |-> "select", result |-> "running"]

BranchBreak == [pc |-> "exited", result |-> "Ok"]

\* `renew_ticket(&pve_ticket).await?`: an error returns it from main()
RenewOutcomeIgnored(ok) == [pc |-> "select", result |-> "running"]

RenewOutcome(ok) ==
    IF ok THEN [pc |-> "select", result |-> "running"]
          ELSE [pc |-> "exited", result |-> "Err"]

\* the password field of the renewal request
RenewalPassword == pve_ticket

\* `generate_pve_ticket().await?` answered with a ticket; the futures are created
GeneratePveTicketOk ==
    /\ mainpc = "start"
    /\ issued' = issued + 1
    /\ pve_ticket' = issued + 1
    /\ mainpc' = "select"
    /\ UNCHANGED <<adminVars, panicAbort, result, presented, renewals, renewFailed,
                   webVars, syncVars, cellVars, proxyVars, conns>>

\* the acquisition (or the client construction after it) failed: main() returns Err
GeneratePveTicketErr ==
    /\ mainpc = "start"
    /\ mainpc' = "exited"
    /\ result' = "Err"
    /\ UNCHANGED <<adminVars, panicAbort, credVars, webVars, syncVars, cellVars, proxyVars, conns>>

\* the 600 s sleep wins the select: the renewal request is sent
RenewTimer ==
    /\ mainpc = "select"
    /\ mainpc' = "renewing"
    /\ presented' = RenewalPassword
    /\ renewals' = renewals + 1
    /\ UNCHANGED <<adminVars, panicAbort, result, pve_ticket, issued, renewFailed,
                   webVars, syncVars, cellVars, proxyVars, conns>>

\* the endpoint accepted the renewal and issued a ticket; the response is dropped
RenewTicketOk ==
    /\ mainpc = "renewing"
    /\ issued' = issued + 1
    /\ presented' = 0
    /\ mainpc' = RenewOutcome(TRUE).pc
    /\ result' = RenewOutcome(TRUE).result
    /\ UNCHANGED <<adminVars, panicAbort, pve_ticket, renewals, renewFailed,
                   webVars, syncVars, cellVars, proxyVars, conns>>

\* the renewal request failed (transport error or error status)
RenewTicketErr ==
    /\ mainpc = "renewing"
    /\ renewFailed' = TRUE
    /\ presented' = 0
    /\ mainpc' = RenewOutcome(FALSE).pc
    /\ result' = RenewOutcome(FALSE).result
    /\ UNCHANGED <<adminVars, panicAbort, pve_ticket, issued, renewals,
                   webVars, syncVars, cellVars, proxyVars, conns>>

(***************************************************************************)
(* setup_webserver: polled by the select only.                             *)
(***************************************************************************)
\* get_exposed_address() found the interface: the bind is awaited
WebAddressOk ==
    /\ mainpc = "select"
    /\ webpc = "start"
    /\ webpc' = "bind"
    /\ UNCHANGED <<adminVars, panicAbort, mainpc, result, credVars, syncVars, cellVars, proxyVars, conns>>

WebBindOk ==
    /\ mainpc = "select"
    /\ webpc = "bind"
    /\ webpc' = "serve"
    /\ UNCHANGED <<adminVars, panicAbort, mainpc, result, credVars, syncVars, cellVars, proxyVars, conns>>

\* the future returns Err (no interface, no IPv4 address, bind or serve error)
WebFail ==
    /\ mainpc = "select"
    /\ webpc \in {"start", "bind", "serve"}
    /\ webpc' = "failed"
    /\ mainpc' = BranchBreak.pc
    /\ result' = BranchBreak.result
    /\ UNCHANGED <<adminVars, panicAbort, credVars, syncVars, cellVars, proxyVars, conns>>

\* axum::serve returned Ok
WebFinish ==
    /\ mainpc = "select"
    /\ webpc = "serve"
    /\ webpc' = "finished"
    /\ mainpc' = BranchBreak.pc
    /\ result' = BranchBreak.result
    /\ UNCHANGED <<adminVars, panicAbort, credVars, syncVars, cellVars, proxyVars, conns>>

(***************************************************************************)
(* synchronize_ipams: polled by the select only.                           *)
(***************************************************************************)
\* the closure of the filter: hostname.is_some_and(|h| h.starts_with("k3s-server"))
IsControlPlaneOrUnnamed(ipam) ==
    \/ ipam.hostname = None
    \/ StartsWith(ipam.hostname[1], ServerPrefix)

\* the closure of the filter: hostname.is_some_and(|h| h.starts_with("k3s-server"))
IsControlPlane(ipam) ==
    /\ IsSome(ipam.hostname)
    /\ StartsWith(ipam.hostname[1], ServerPrefix)

\* ipams.extend(data.into_iter().filter(..))
\* ipams.extend(data.into_iter().filter(..))
ExtendIpamsPrepend(acc, data) == SelectSeq(data, IsControlPlane) \o acc

ExtendIpams(acc, data) == acc \o SelectSeq(data, IsControlPlane)

\* tx.send(ipams): the channel's value is replaced as a whole; the receivers'
\* earlier clones are values of their own
TxSendShared(v) ==
    /\ cell' = v
    /\ conns' = [c \in ConnIds |->
                    IF conns[c].state = "connecting" THEN [conns[c] EXCEPT !.ipams = v]
                                                     ELSE conns[c]]

TxSend(v) ==
    /\ cell' = v
    /\ conns' = conns

\* between two fetches of a cycle the records collected so far are in the local
\* `ipams` only
CollectShared(acc) ==
    /\ syncIpams' = acc
    /\ cell' = acc
    /\ conns' = conns

Collect(acc) ==
    /\ syncIpams' = acc
    /\ cell' = cell
    /\ conns' = conns

\* the end of a cycle: send, then back to the sleep at the top of the loop
EndCycle(acc, raw) ==
    /\ TxSend(acc)
    /\ lastSent' = acc
    /\ sends' = sends + 1
    /\ syncpc' = "sleep"
    /\ syncNodes' = <<>>
    /\ syncIpams' = <<>>
    /\ syncRaw' = raw

\* the 10 s sleep elapsed: the node-list request is sent
SyncWake ==
    /\ mainpc = "select"
    /\ syncpc = "sleep"
    /\ syncpc' = "get_nodes"
    /\ polls' = polls + 1
    /\ UNCHANGED <<adminVars, panicAbort, mainpc, result, credVars, webVars, syncNodes, syncIpams, syncRaw,
                   pollFailed, cellVars, proxyVars, conns>>

\* get_nodes answered with `nodes`; with no node the loop body is skipped and
\* the empty list is sent
SyncGetNodesOk(nodes) ==
    /\ mainpc = "select"
    /\ syncpc = "get_nodes"
    /\ IF nodes = <<>>
         THEN EndCycle(<<>>, <<>>)
         ELSE /\ syncpc' = "get_ipams"
              /\ syncNodes' = nodes
              /\ syncRaw' = <<>>
              /\ Collect(<<>>)
              /\ UNCHANGED <<lastSent, sends>>
    /\ UNCHANGED <<adminVars, panicAbort, mainpc, result, credVars, webVars, polls, pollFailed, proxyVars>>

\* get_ipams_for_node answered for the first node left with `data`
SyncGetIpamsOk(data) ==
    /\ mainpc = "select"
    /\ syncpc = "get_ipams"
    /\ LET acc == ExtendIpams(syncIpams, data)
           raw == syncRaw \o data
       IN  IF Len(syncNodes) = 1
             THEN EndCycle(acc, raw)
             ELSE /\ syncNodes' = Tail(syncNodes)
                  /\ syncRaw' = raw
                  /\ Collect(acc)
                  /\ UNCHANGED <<syncpc, lastSent, sends>>
    /\ UNCHANGED <<adminVars, panicAbort, mainpc, result, credVars, webVars, polls, pollFailed, proxyVars>>

\* where synchronize_ipams goes on a failed fetch: `?` returns the error
SyncOnErrorRetry == "sleep"

SyncOnError == "failed"

\* a fetch of the cycle failed: the future ends, the select branch drops its
\* result and breaks
SyncFetchErr ==
    /\ mainpc = "select"
    /\ syncpc \in {"get_nodes", "get_ipams"}
    /\ pollFailed' = TRUE
    /\ syncpc' = SyncOnError
    /\ mainpc' = IF SyncOnError = "failed" THEN BranchBreak.pc ELSE mainpc
    /\ result' = IF SyncOnError = "failed" THEN BranchBreak.result ELSE result
    /\ UNCHANGED <<adminVars, panicAbort, credVars, webVars, syncNodes, syncIpams, syncRaw, polls,
                   cellVars, proxyVars, conns>>

(***************************************************************************)
(* proxy_k8s_servers: the accept loop (polled by the select) and the relay *)
(* tasks it spawns (run by the runtime while the process lives).           *)
(***************************************************************************)
\* rx.borrow().clone()
ReadCell == cell

\* the task as spawned: its own copy of the list, the cursor at 0
Spawn(ipams) ==
    [state |-> "connecting", ipams |-> ipams, ipam_idx |-> 0, egress |-> None, attempts |-> <<>>,
     eof |-> "none"]

\* the task is over ("graceful", "io_error" or "panicked"): its list, cursor
\* and sockets are dropped
Ended(how) ==
    [state |-> how, ipams |-> <<>>, ipam_idx |-> 0, egress |-> None, attempts |-> <<>>,
     eof |-> "none"]

\* ipam_idx += 1
NextIdxSkip(idx) == idx + 2

\* ipam_idx += 1
NextIdxStay(idx) == idx

NextIdx(idx) == idx + 1

\* the first connection not accepted yet
NextConn == Cardinality({c \in ConnIds : conns[c].state # "free"}) + 1

ProxyBindOk ==
    /\ mainpc = "select"
    /\ proxypc = "bind"
    /\ proxypc' = "accept"
    /\ UNCHANGED <<adminVars, panicAbort, mainpc, result, credVars, webVars, syncVars, cellVars, conns>>

\* bind or accept returned an error: the future ends with it, the select breaks
ProxyFail ==
    /\ mainpc = "select"
    /\ proxypc \in {"bind", "accept"}
    /\ proxypc' = "failed"
    /\ mainpc' = BranchBreak.pc
    /\ result' = BranchBreak.result
    /\ UNCHANGED <<adminVars, panicAbort, credVars, webVars, syncVars, cellVars, conns>>

\* accept returned a connection: the list is read once and the task is spawned
AcceptInline ==
    /\ mainpc = "select"
    /\ proxypc = "accept"
    /\ \A c \in ConnIds : conns[c].state \notin {"connecting", "relaying"}
    /\ conns' = [conns EXCEPT ![NextConn] = Spawn(ReadCell)]
    /\ UNCHANGED <<adminVars, panicAbort, mainpc, result, credVars, webVars, syncVars, cellVars, proxyVars>>

\* accept returned a connection: the list is read once and the task is spawned
Accept ==
    /\ mainpc = "select"
    /\ proxypc = "accept"
    /\ conns' = [conns EXCEPT ![NextConn] = Spawn(ReadCell)]
    /\ UNCHANGED <<adminVars, panicAbort, mainpc, result, credVars, webVars, syncVars, cellVars, proxyVars>>

\* the connect loop broke with None: panic!().  An unwinding build ends the
\* task (the runtime catches the panic, the inbound socket is dropped); an
\* aborting build ends the process.
Exhausted(c, conn) ==
    /\ conns' = [conns EXCEPT ![c] = Ended("panicked")]
    /\ mainpc' = IF panicAbort THEN "exited" ELSE mainpc
    /\ result' = IF panicAbort THEN "Abort" ELSE result

\* the task is first polled with an empty list
RelayNoCandidate(c) ==
    /\ mainpc # "exited"
    /\ conns[c].state = "connecting"
    /\ conns[c].ipam_idx >= Len(conns[c].ipams)
    /\ Exhausted(c, conns[c])
    /\ UNCHANGED <<adminVars, panicAbort, credVars, webVars, syncVars, cellVars, proxyVars>>

\* TcpStream::connect to the candidate under the cursor succeeded
RelayConnectOk(c) ==
    /\ mainpc # "exited"
    /\ conns[c].state = "connecting"
    /\ conns[c].ipam_idx < Len(conns[c].ipams)
    /\ LET ipam == conns[c].ipams[conns[c].ipam_idx + 1]
       IN  conns' = [conns EXCEPT ![c] =
                [@ EXCEPT !.state = "relaying",
                          !.egress = Some(ipam.ip),
                          !.attempts = Append(@, [idx |-> conns[c].ipam_idx, ip |-> ipam.ip, ok |-> TRUE])]]
    /\ UNCHANGED <<adminVars, panicAbort, mainpc, result, credVars, webVars, syncVars, cellVars, proxyVars>>

\* the connect failed: the cursor advances, and past the end the loop breaks
RelayConnectErr(c) ==
    /\ mainpc # "exited"
    /\ conns[c].state = "connecting"
    /\ conns[c].ipam_idx < Len(conns[c].ipams)
    /\ LET ipam == conns[c].ipams[conns[c].ipam_idx + 1]
           conn == [conns[c] EXCEPT
                       !.ipam_idx = NextIdx(@),
                       !.attempts = Append(@, [idx |-> conns[c].ipam_idx, ip |-> ipam.ip, ok |-> FALSE])]
       IN  IF conn.ipam_idx >= Len(conn.ipams)
             THEN Exhausted(c, conn)
             ELSE /\ conns' = [conns EXCEPT ![c] = conn]
                  /\ UNCHANGED <<mainpc, result>>
    /\ UNCHANGED <<adminVars, panicAbort, credVars, webVars, syncVars, cellVars, proxyVars>>

\* the sides of a relayed connection
Sides == {"client", "backend"}

\* copy_bidirectional, one direction: the read from `side` returned end of stream
\* while the other direction is still running. The write half of the opposite
\* stream is shut down and the other direction goes on; the future stays pending
RelayEofEnds(c, side) ==
    /\ mainpc # "exited"
    /\ conns[c].state = "relaying"
    /\ conns[c].eof = "none"
    /\ conns' = [conns EXCEPT ![c] = Ended("graceful")]
    /\ UNCHANGED <<adminVars, panicAbort, mainpc, result, credVars, webVars, syncVars, cellVars, proxyVars>>

RelayEof(c, side) ==
    /\ mainpc # "exited"
    /\ conns[c].state = "relaying"
    /\ conns[c].eof = "none"
    /\ conns' = [conns EXCEPT ![c].eof = side]
    /\ UNCHANGED <<adminVars, panicAbort, mainpc, result, credVars, webVars, syncVars, cellVars, proxyVars>>

\* copy_bidirectional returned Ok (the second direction reached end of stream
\* too): the counts are printed
RelayEndOk(c) ==
    /\ mainpc # "exited"
    /\ conns[c].state = "relaying"
    /\ conns[c].eof # "none"
    /\ conns' = [conns EXCEPT ![c] = Ended("graceful")]
    /\ UNCHANGED <<adminVars, panicAbort, mainpc, result, credVars, webVars, syncVars, cellVars, proxyVars>>

\* copy_bidirectional returned Err: the error is printed
RelayEndErrEscalated(c) ==
    /\ mainpc # "exited"
    /\ conns[c].state = "relaying"
    /\ conns' = [conns EXCEPT ![c] = Ended("io_error")]
    /\ proxypc' = "failed"
    /\ mainpc' = BranchBreak.pc
    /\ result' = BranchBreak.result
    /\ UNCHANGED <<adminVars, panicAbort, credVars, webVars, syncVars, cellVars>>

RelayEndErr(c) ==
    /\ mainpc # "exited"
    /\ conns[c].state = "relaying"
    /\ conns' = [conns EXCEPT ![c] = Ended("io_error")]
    /\ UNCHANGED <<adminVars, panicAbort, mainpc, result, credVars, webVars, syncVars, cellVars, proxyVars>>

(***************************************************************************)
(* get_nodes_infos, the handler of GET /nodes on the cluster router: run   *)
(* by the task the web server spawns for the caller's connection.          *)
(***************************************************************************)
\* the vnet the first filter compares with: the literal, not the configuration
InternalVnet == "vnet1"

\* addr.ip().to_string() of an IPv4 address given by its four octets
Ipv4ToString(ip) ==
    I64ToString(ip[1]) \o "." \o I64ToString(ip[2]) \o "." \o I64ToString(ip[3]) \o "."
        \o I64ToString(ip[4])

\* vms.iter().find(|v| vmid == v.vmid.to_string()): the first machine with the vmid
FindVm(vms, vmid) ==
    LET hits == {i \in 1..Len(vms) : I64ToString(vms[i].vmid) = vmid}
    IN  IF hits = {} THEN None
                     ELSE Some(vms[CHOOSE i \in hits : \A j \in hits : i <= j])

\* the four filters on one entry of a node's address records
KeepEntry(entry, vms, addr) ==
    /\ entry.vnet = InternalVnet
    /\ Ipv4ToString(addr) # entry.ip
    /\ IsSome(entry.vmid)
    /\ LET v == FindVm(vms, entry.vmid[1])
       IN  /\ IsSome(v)
           /\ v[1].template = None
           /\ v[1].status = "running"

\* ipams.extend(data.into_iter().filter(..).filter(..).filter(..).filter(..))
ExtendNodesInfos(acc, data, vms, addr) ==
    acc \o SelectSeq(data, LAMBDA entry : KeepEntry(entry, vms, addr))

\* the records the fetches of a request have returned so far
RECURSIVE RawCount(_)
RawCount(raw) == IF raw = <<>> THEN 0 ELSE Len(raw[1].data) + RawCount(Tail(raw))

\* a caller connects and sends GET /nodes: the node-list request is sent
NodesInfosRequest(addr) ==
    /\ mainpc = "select"
    /\ webpc = "serve"
    /\ req.pc = "idle"
    /\ req' = [NoRequest EXCEPT !.pc = "get_nodes", !.addr = addr]
    /\ UNCHANGED <<config, panicAbort, mainpc, result, credVars, webVars, syncVars, cellVars,
                   proxyVars, conns>>

\* get_nodes answered with `nodes`; with no node the empty list is the response
NodesInfosGetNodesOk(nodes) ==
    /\ mainpc # "exited"
    /\ req.pc = "get_nodes"
    /\ req' = IF nodes = <<>> THEN [req EXCEPT !.pc = "ok"]
                              ELSE [req EXCEPT !.pc = "get_vms", !.nodes = nodes]
    /\ UNCHANGED <<config, panicAbort, mainpc, result, credVars, webVars, syncVars, cellVars,
                   proxyVars, conns>>

\* get_all_vms_for_node answered for the first node left
NodesInfosGetVmsOk(vms) ==
    /\ mainpc # "exited"
    /\ req.pc = "get_vms"
    /\ req' = [req EXCEPT !.pc = "get_ipams", !.vms = vms]
    /\ UNCHANGED <<config, panicAbort, mainpc, result, credVars, webVars, syncVars, cellVars,
                   proxyVars, conns>>

\* get_ipams_for_node answered for the same node: its entries are filtered and
\* appended; after the last node the list is the response
NodesInfosGetIpamsOk(data) ==
    /\ mainpc # "exited"
    /\ req.pc = "get_ipams"
    /\ req' = [req EXCEPT
                 !.pc = IF Len(req.nodes) = 1 THEN "ok" ELSE "get_vms",
                 !.nodes = Tail(req.nodes),
                 !.vms = <<>>,
                 !.ipams = ExtendNodesInfos(req.ipams, data, req.vms, req.addr),
                 !.raw = Append(req.raw, [node |-> Head(req.nodes), vms |-> req.vms,
                                          data |-> data])]
    /\ UNCHANGED <<config, panicAbort, mainpc, result, credVars, webVars, syncVars, cellVars,
                   proxyVars, conns>>

\* a fetch failed: `?` returns the error, which becomes the response
NodesInfosFetchErr ==
    /\ mainpc # "exited"
    /\ req.pc \in {"get_nodes", "get_vms", "get_ipams"}
    /\ req' = [req EXCEPT !.pc = "err", !.ipams = <<>>]
    /\ UNCHANGED <<config, panicAbort, mainpc, result, credVars, webVars, syncVars, cellVars,
                   proxyVars, conns>>

(***************************************************************************)
(* The admin endpoint: one GET /nodes request against every inventory of   *)
(* up to MaxAdminRecs address records and MaxAdminVms machines per node,   *)
(* under either segment name.                                              *)
(***************************************************************************)
InitAdmin == Startup(Segments)

\* the callers' source addresses: the address of a record, and another
AdminAddrs == {<<10, 0, 0, 5>>, <<10, 0, 0, 9>>}

AdminRecords ==
    [hostname : {Some("k3s-server-1")}, vmid : {None, Some("101"), Some("102")},
     vnet : Segments, ip : {"10.0.0.5", "10.0.0.6"}]

AdminVms == [vmid : {101, 102}, status : {"running", "stopped"}, template : {None, Some(1)}]

\* a node's machines: vmids are unique on a node
AdminVmLists ==
    {l \in SeqsUpTo(AdminVms, MaxAdminVms) :
        \A i, j \in 1..Len(l) : l[i].vmid = l[j].vmid => i = j}

AdminResponses == SeqsUpTo(AdminRecords, MaxAdminRecs - RawCount(req.raw))

NextAdmin ==
    \/ GeneratePveTicketOk
    \/ GeneratePveTicketErr
    \/ WebAddressOk
    \/ WebBindOk
    \/ WebFail
    \/ WebFinish
    \/ \E addr \in AdminAddrs : NodesInfosRequest(addr)
    \/ \E nodes \in NodePrefixes : NodesInfosGetNodesOk(nodes)
    \/ \E vms \in AdminVmLists : NodesInfosGetVmsOk(vms)
    \/ \E data \in AdminResponses : NodesInfosGetIpamsOk(data)
    \/ NodesInfosFetchErr

SpecAdmin == InitAdmin /\ [][NextAdmin]_vars

(***************************************************************************)
(* The process: every future and task, an inventory of at most one address *)
(* record.                                                                 *)
(***************************************************************************)
\* what one fetch of address records may return
LiveResponses == SeqsUpTo(LiveRecords, 1 - Len(syncRaw))

Next ==
    \/ GeneratePveTicketOk
    \/ GeneratePveTicketErr
    \/ RenewTimer /\ renewals < MaxRenewals
    \/ RenewTicketOk
    \/ RenewTicketErr
    \/ WebAddressOk
    \/ WebBindOk
    \/ WebFail
    \/ WebFinish
    \/ SyncWake /\ polls < MaxPolls
    \/ \E nodes \in NodePrefixes : SyncGetNodesOk(nodes)
    \/ \E data \in LiveResponses : SyncGetIpamsOk(data)
    \/ SyncFetchErr
    \/ ProxyBindOk
    \/ ProxyFail
    \/ Accept /\ NextConn <= MaxProcConns
    \/ \E c \in ConnIds : RelayNoCandidate(c)
    \/ \E c \in ConnIds : RelayConnectOk(c)
    \/ \E c \in ConnIds : RelayConnectErr(c)
    \/ \E c \in ConnIds, side \in Sides : RelayEof(c, side)
    \/ \E c \in ConnIds : RelayEndOk(c)
    \/ \E c \in ConnIds : RelayEndErr(c)

Spec == Init /\ [][Next]_vars

(***************************************************************************)
(* The connect phase: the synchroniser, the accept loop and the relay      *)
(* tasks up to the chosen backend, with an inventory of up to MaxRelayRecs *)
(* records.                                                                *)
(***************************************************************************)
\* the relay specification's cluster has two nodes
RelayCluster == {<<>>, <<"pve1">>, <<"pve1", "pve2">>}

RelayResponses == SeqsUpTo({IpamA, IpamB}, MaxRelayRecs - Len(syncRaw))

NextRelay ==
    \/ GeneratePveTicketOk
    \/ GeneratePveTicketErr
    \/ SyncWake /\ polls < MaxRelayPolls
    \/ \E nodes \in RelayCluster : SyncGetNodesOk(nodes)
    \/ \E data \in RelayResponses : SyncGetIpamsOk(data)
    \/ SyncFetchErr
    \/ ProxyBindOk
    \/ ProxyFail
    \/ Accept /\ NextConn <= MaxRelayConns
    \/ \E c \in ConnIds : RelayNoCandidate(c)
    \/ \E c \in ConnIds : RelayConnectOk(c)
    \/ \E c \in ConnIds : RelayConnectErr(c)

SpecRelay == Init /\ [][NextRelay]_vars

(***************************************************************************)
(* Several connections at once: the accept loop and the relay tasks after  *)
(* one poll cycle of a one-node cluster.                                   *)
(***************************************************************************)
ConnsCluster == {<<"pve1">>}

ConnsResponses == SeqsUpTo({IpamA}, 1)

NextConns ==
    \/ GeneratePveTicketOk
    \/ GeneratePveTicketErr
    \/ SyncWake /\ polls = 0
    \/ \E nodes \in ConnsCluster : SyncGetNodesOk(nodes)
    \/ \E data \in ConnsResponses : SyncGetIpamsOk(data)
    \/ SyncFetchErr
    \/ ProxyBindOk
    \/ ProxyFail
    \/ Accept /\ NextConn <= MaxConns
    \/ \E c \in ConnIds : RelayNoCandidate(c)
    \/ \E c \in ConnIds : RelayConnectOk(c)
    \/ \E c \in ConnIds : RelayConnectErr(c)
    \/ \E c \in ConnIds, side \in Sides : RelayEof(c, side)
    \/ \E c \in ConnIds : RelayEndOk(c)
    \/ \E c \in ConnIds : RelayEndErr(c)

SpecConns == Init /\ [][NextConns]_vars

\* the same steps under the scheduling the runtime gives: an elapsed timer wakes
\* its future and a spawned task that can run is polled. Nothing makes a peer
\* close, answer or fail.
SpecConnsFair ==
    /\ Init
    /\ [][NextConns]_vars
    /\ WF_vars(SyncWake /\ polls = 0)
    /\ WF_vars(\E c \in ConnIds : RelayNoCandidate(c))

(***************************************************************************)
(* The connect phase with several poll cycles, so that sends fall between  *)
(* the steps of a relay task that holds an earlier list.                   *)
(***************************************************************************)
PublishResponses == SeqsUpTo({IpamA, IpamB}, MaxPublishRecs - Len(syncRaw))

NextPublish ==
    \/ GeneratePveTicketOk
    \/ GeneratePveTicketErr
    \/ SyncWake /\ polls < MaxPublishPolls
    \/ \E nodes \in RelayCluster : SyncGetNodesOk(nodes)
    \/ \E data \in PublishResponses : SyncGetIpamsOk(data)
    \/ SyncFetchErr
    \/ ProxyBindOk
    \/ ProxyFail
    \/ Accept /\ NextConn <= MaxPublishConns
    \/ \E c \in ConnIds : RelayNoCandidate(c)
    \/ \E c \in ConnIds : RelayConnectOk(c)
    \/ \E c \in ConnIds : RelayConnectErr(c)

SpecPublish == Init /\ [][NextPublish]_vars

(***************************************************************************)
(* One poll cycle of the synchroniser over every kind of record.           *)
(***************************************************************************)
FilterResponses == SeqsUpTo(AllRecords, MaxFilterRecs - Len(syncRaw))

NextFilter ==
    \/ GeneratePveTicketOk
    \/ GeneratePveTicketErr
    \/ SyncWake /\ polls = 0
    \/ \E nodes \in NodePrefixes : SyncGetNodesOk(nodes)
    \/ \E data \in FilterResponses : SyncGetIpamsOk(data)
    \/ SyncFetchErr

SpecFilter == Init /\ [][NextFilter]_vars

(***************************************************************************)
(* Properties.                                                             *)
(***************************************************************************)
Live(c) == conns[c].state \in {"connecting", "relaying"}

\* C1: a relay task tries the candidates of its list in list order from index
\* 0, every attempt before the last one failed, and the backend it relays to
\* is the one candidate whose connect succeeded, the last one attempted.
FailoverOrder ==
    \A c \in ConnIds :
        Live(c) =>
            LET a == conns[c].attempts
                l == conns[c].ipams
            IN  /\ Len(a) <= Len(l)
                /\ \A i \in 1..Len(a) :
                      /\ a[i].idx = i - 1
                      /\ a[i].ip = l[i].ip
                      /\ a[i].ok <=> (i = Len(a) /\ conns[c].state = "relaying")
                /\ conns[c].state = "relaying" =>
                      /\ Len(a) >= 1
                      /\ conns[c].egress = Some(l[Len(a)].ip)
                /\ conns[c].state = "connecting" => conns[c].egress = None

\* two candidates refused, the third accepted
FailoverOrderWitness ==
    \E c \in ConnIds :
        /\ conns[c].state = "relaying"
        /\ Len(conns[c].attempts) = 3
        /\ conns[c].egress = Some(conns[c].ipams[3].ip)

\* C2: the list of a connection is read when the connection is accepted and
\* stays what it was, contents and order, for as long as the task lives,
\* whatever is sent meanwhile.
SnapshotStable ==
    [][\A c \in ConnIds :
          /\ (conns[c].state = "free" /\ conns'[c].state # "free") => conns'[c].ipams = cell
          /\ (Live(c) /\ conns'[c].state \in {"connecting", "relaying"})
                => conns'[c].ipams = conns[c].ipams]_vars

\* a send came between the accept and a later connect of the same task
SnapshotStableWitness ==
    \E c \in ConnIds :
        /\ conns[c].state = "connecting"
        /\ conns[c].attempts # <<>>
        /\ conns[c].ipams # cell
        /\ polls > 0
        /\ syncpc = "sleep"

\* C3: every read of the channel returns a whole value: the latest one sent,
\* or the initial empty list before the first send; never the records of a
\* cycle still being collected.
ReadsWhole ==
    [][\A c \in ConnIds :
          (conns[c].state = "free" /\ conns'[c].state # "free")
              => conns'[c].ipams = lastSent]_vars

\* a connection was accepted while a cycle had collected records not sent yet
ReadsWholeWitness ==
    \E c \in ConnIds :
        /\ conns[c].state = "connecting"
        /\ conns[c].attempts = <<>>
        /\ syncpc = "get_ipams"
        /\ syncIpams # <<>>
        /\ syncIpams # conns[c].ipams

Count(r, s) == Cardinality({i \in 1..Len(s) : s[i] = r})

\* a cycle has ended with a send and no later cycle has fetched anything yet
CycleSent == polls > 0 /\ syncpc \in {"sleep", "get_nodes"}

\* the membership as the specification words it: in the internal segment, with
\* an identity, and the identity that of a workload running and not a template
ClaimedMember(r) ==
    /\ r.vnet = "vnet1"
    /\ IsSome(r.vmid)
    /\ \E v \in VirtualMachines :
          /\ I64ToString(v.vmid) = r.vmid[1]
          /\ v.template = None
          /\ v.status = "running"

\* h is the prefix followed by the rest of h
BeginsWithServerPrefix(h) ==
    /\ Len(h) >= Len(ServerPrefix)
    /\ h = ServerPrefix \o SubSeq(h, Len(ServerPrefix) + 1, Len(h))

PollFailureFatal ==
    [][pollFailed' =>
          /\ syncpc' = "failed"
          /\ mainpc' = "exited"
          /\ polls' = polls]_vars

\* the fetch of a node failed in the second cycle, with another node to go
PollFailureFatalWitness ==
    /\ pollFailed
    /\ polls = 2
    /\ Len(syncNodes) = 2
    /\ mainpc = "exited"

TaskOver ==
    \/ webpc \in {"finished", "failed"}
    \/ syncpc = "failed"
    \/ proxypc = "failed"

\* C7: the step in which a long-running task ends, with or without an error,
\* is the step in which the select loop is left and the process ends; a task
\* that has ended never runs again.
SupervisorExits ==
    [][/\ TaskOver' => mainpc' = "exited"
       /\ TaskOver => UNCHANGED <<webpc, syncpc, proxypc>>]_vars

\* the web server returned normally and the process is over
SupervisorExitsWitness ==
    /\ webpc = "finished"
    /\ mainpc = "exited"
    /\ syncpc # "failed"
    /\ proxypc = "accept"

\* C8: when the poll loop has ended with an error the process result is that
\* error.
SyncErrorSurfaced == syncpc = "failed" => result = "Err"

\* C9: the renewal request in flight carries the ticket obtained last.
RenewalUsesLatest == mainpc = "renewing" => presented = issued

\* C10: a failed renewal ends the process with the error, and no renewal,
\* poll, accept or relay step follows.
RenewalFailureFatal ==
    [][renewFailed' =>
          /\ mainpc' = "exited"
          /\ result' = "Err"
          /\ UNCHANGED <<renewals, syncVars, cellVars, proxyVars, webVars, conns>>]_vars

\* the second renewal failed while a relay task was connecting
RenewalFailureFatalWitness ==
    /\ renewFailed
    /\ renewals = 2
    /\ mainpc = "exited"
    /\ \E c \in ConnIds : conns[c].state = "connecting"

\* C11: while a renewal request is in flight the other components can still
\* take their steps: the accept loop can accept a connection, the poll loop can
\* start a cycle or get the answer of a fetch, the web server can go on.
RenewalIndependent ==
    mainpc = "renewing" =>
        /\ proxypc = "accept" /\ NextConn <= MaxConns => ENABLED Accept
        /\ proxypc = "bind" => ENABLED ProxyBindOk
        /\ syncpc = "sleep" => ENABLED SyncWake
        /\ syncpc \in {"get_nodes", "get_ipams"} => ENABLED SyncFetchErr
        /\ webpc = "start" => ENABLED WebAddressOk
        /\ webpc = "serve" => ENABLED WebFinish

\* C12: whenever the select polls the accept loop and the loop waits for a
\* connection, the next connection can be accepted, whatever the relay tasks of
\* the earlier connections are doing (connecting, relaying, or relaying with one
\* side at end of stream).
AcceptNeverBlocks ==
    mainpc = "select" /\ proxypc = "accept" /\ NextConn \in ConnIds => ENABLED Accept

\* a connection was accepted while the relay task of an earlier one still relays:
\* two tasks are in flight and the loop is back at accept
AcceptNeverBlocksWitness ==
    /\ mainpc = "select"
    /\ proxypc = "accept"
    /\ conns[1].state = "relaying"
    /\ conns[2].state = "connecting"

\* C13 as stated: once one side of a relayed connection has closed, the relay
\* task terminates.
EitherCloseTerminates ==
    \A c \in ConnIds :
        (conns[c].state = "relaying" /\ conns[c].eof # "none")
            ~> (conns[c].state # "relaying" \/ mainpc = "exited")

\* C13: a relay runs until both directions have reached end of stream or a
\* transport error occurs. A relaying task ends only as graceful or io_error; it
\* ends graceful only in a step taken after one side had already closed, and
\* while it relays its backend does not change.
RelayEndsAtSecondEof ==
    [][\A c \in ConnIds :
          conns[c].state = "relaying" =>
              /\ conns'[c].state \in {"relaying", "graceful", "io_error"}
              /\ conns'[c].state = "graceful" => conns[c].eof \in Sides
              /\ conns'[c].state = "relaying" =>
                    /\ conns'[c].egress = conns[c].egress
                    /\ conns[c].eof \in Sides => conns'[c].eof = conns[c].eof]_vars

\* the backend has closed its side and the task still relays
RelayEndsAtSecondEofWitness ==
    /\ mainpc = "select"
    /\ conns[1].state = "relaying"
    /\ conns[1].eof = "backend"

\* C14: the step in which a relay ends with a transport error releases that
\* task's sockets and changes nothing else: the process, the web server, the
\* synchroniser, the channel, the accept loop and every other connection are as
\* they were.
RelayErrorContained ==
    [][\A c \in ConnIds :
          conns[c].state = "relaying" /\ conns'[c].state = "io_error" =>
              /\ conns'[c].egress = None
              /\ UNCHANGED <<mainpc, result, webVars, syncVars, cellVars, proxyVars>>
              /\ \A d \in ConnIds \ {c} : conns'[d] = conns[d]]_vars

\* a relay has ended with a transport error; another connection still relays
\* and the accept loop still runs
RelayErrorContainedWitness ==
    /\ mainpc = "select"
    /\ result = "running"
    /\ proxypc = "accept"
    /\ \E c, d \in ConnIds : conns[c].state = "io_error" /\ conns[d].state = "relaying"

\* what C15 keeps of a node's records: in the configured segment, with an
\* identity that is the vmid of a running machine of the node that is not a
\* template, and not at the caller's address
ClaimedNodeInfo(entry, vms, addr) ==
    /\ entry.vnet = config
    /\ entry.vmid # None
    /\ \E i \in 1..Len(vms) :
          /\ I64ToString(vms[i].vmid) = entry.vmid[1]
          /\ vms[i].template = None
          /\ vms[i].status = "running"
    /\ entry.ip # Ipv4ToString(addr)

RECURSIVE ClaimedNodesInfos(_, _)
ClaimedNodesInfos(raw, addr) ==
    IF raw = <<>> THEN <<>>
    ELSE SelectSeq(raw[1].data, LAMBDA entry : ClaimedNodeInfo(entry, raw[1].vms, addr))
             \o ClaimedNodesInfos(Tail(raw), addr)

\* C15: the response of GET /nodes is, in node order, exactly the fetched
\* records that are in the configured internal segment, carry an identity that
\* matches a running non-template machine of the same node, and are not at
\* the caller's address.
NodesInfosByConfiguredSegment ==
    req.pc = "ok" => req.ipams = ClaimedNodesInfos(req.raw, req.addr)

\* C16: every step of a task in its connect phase is one connect attempt at the
\* index under the cursor or the end of the phase. A failed attempt moves the
\* cursor forward, a successful one ends the phase with the backend, the phase
\* ends without a backend only when no index is left; no index is attempted
\* twice and the attempts never outnumber the entries of the list.
NoRetry ==
    [][\A c \in ConnIds :
          (conns[c].state = "connecting" /\ conns'[c] # conns[c]) =>
              LET n == Len(conns[c].ipams)
                  k == conns[c].ipam_idx
                  tried == Len(conns[c].attempts)
              IN  /\ tried = k
                  /\ \/ /\ conns'[c].state = "connecting"
                        /\ conns'[c].ipam_idx > k
                        /\ conns'[c].ipam_idx < n
                        /\ Len(conns'[c].attempts) = tried + 1
                        /\ conns'[c].attempts[tried + 1].idx = k
                     \/ /\ conns'[c].state = "relaying"
                        /\ conns'[c].ipam_idx = k
                        /\ Len(conns'[c].attempts) = tried + 1
                        /\ tried + 1 <= n
                        /\ conns'[c].attempts[tried + 1].idx = k
                     \/ /\ conns'[c].state = "panicked"
                        /\ n = 0 \/ k = n - 1
                  /\ \A i, j \in 1..Len(conns'[c].attempts) :
                        conns'[c].attempts[i].idx = conns'[c].attempts[j].idx => i = j]_vars

\* two candidates of three have failed and the cursor is on the last one
NoRetryWitness ==
    \E c \in ConnIds :
        /\ conns[c].state = "connecting"
        /\ Len(conns[c].ipams) = 3
        /\ conns[c].ipam_idx = 2
        /\ Len(conns[c].attempts) = 2

\* the records of s with a hostname that begins with the prefix, in the order of s
KeptOf(s) ==
    SelectSeq(s, LAMBDA r : r.hostname # None /\ BeginsWithServerPrefix(r.hostname[1]))

\* C17: the answer of each node's fetch contributes its kept records, in the
\* order of the answer, after the kept records of the nodes fetched before it;
\* the list sent after the last node is that concatenation, with nothing
\* reordered and nothing removed as a duplicate.
SnapshotOrder ==
    [][(syncpc = "get_ipams" /\ syncNodes' # syncNodes) =>
          LET data == SubSeq(syncRaw', Len(syncRaw) + 1, Len(syncRaw'))
          IN  /\ syncRaw' = syncRaw \o data
              /\ syncIpams = KeptOf(syncRaw)
              /\ IF syncpc' = "sleep"
                   THEN /\ syncNodes' = <<>>
                        /\ cell' = syncIpams \o KeptOf(data)
                        /\ cell' = KeptOf(syncRaw')
                   ELSE /\ syncNodes' = Tail(syncNodes)
                        /\ syncIpams' = syncIpams \o KeptOf(data)
                        /\ cell' = cell]_vars

\* the first node's answer left one kept record in the list and the second
\* node is being fetched
SnapshotOrderWitness ==
    /\ syncpc = "get_ipams"
    /\ syncNodes = <<"pve2">>
    /\ Len(syncIpams) = 1
    /\ Len(syncRaw) = 1

\* C18: the channel holds the list of the latest completed cycle (the initial
\* one before the first) in every state, also during a cycle and after a
\* failed one; the sends are as many as the cycles completed, none for the
\* cycle under way or failed.
FailedCycleSendsNothing ==
    /\ cell = lastSent
    /\ sends = IF syncpc = "sleep" THEN polls ELSE polls - 1
    /\ pollFailed => syncpc # "sleep"

\* the second cycle failed after a node's records were collected: the channel
\* still holds the first cycle's list
FailedCycleSendsNothingWitness ==
    /\ pollFailed
    /\ polls = 2
    /\ sends = 1
    /\ cell # <<>>
    /\ syncIpams # <<>>
    /\ syncIpams # cell

\* C19: until the first send the channel holds the empty list, and no fetch is
\* sent before the first sleep of the poll loop has elapsed; a connection
\* accepted until then has the empty list, attempts no connect, holds no
\* backend, and, once its task has run, has ended for want of a backend.
EmptyUntilFirstSend ==
    /\ polls = 0 => syncpc = "sleep" /\ sends = 0
    /\ sends = 0 =>
          /\ cell = <<>>
          /\ \A c \in ConnIds :
                /\ conns[c].state \in {"free", "connecting", "panicked"}
                /\ conns[c].ipams = <<>>
                /\ conns[c].ipam_idx = 0
                /\ conns[c].attempts = <<>>
                /\ conns[c].egress = None

\* a connection accepted during the first sleep of the poll loop has ended
\* without a backend
EmptyUntilFirstSendWitness ==
    /\ polls = 0
    /\ sends = 0
    /\ proxypc = "accept"
    /\ conns[1].state = "panicked"

\* C20: in every state every entry of the list in the channel has a hostname,
\* and the hostname begins with "k3s-server".
CellHoldsServersOnly ==
    \A i \in 1..Len(cell) :
        /\ cell[i].hostname # None
        /\ BeginsWithServerPrefix(cell[i].hostname[1])

\* the channel holds a server record without identity outside the internal
\* segment; the record fetched with it was not sent
CellHoldsServersOnlyWitness ==
    /\ Len(cell) = 1
    /\ cell[1].vmid = None
    /\ cell[1].vnet = "vnet2"
    /\ Len(syncRaw) = 2
    /\ \E i \in 1..2 : syncRaw[i].hostname = None

=============================================================================
